---- MODULE Spec2Model ----
(***************************************************************************)
(* Model of the browser-driven functional-time measurement of rust_npm_host *)
(*   back_end/ping_test.rs         measure_website_functional_time          *)
(*   back_end/browser_emulator.rs  BrowserEmulator::{new,                   *)
(*                                 measure_load_time, close}                *)
(*   main.rs                       perform_website_check, main              *)
(* and of the probe loop (main.rs, ping_test.rs is_port_open), of           *)
(* load_addresses (address.rs) and of load_port_services                    *)
(* (back_end/iana_ports.rs), each with a specification of its own.          *)
(* Every await point of the code is one step.  Time is counted in           *)
(* milliseconds; the durations of the driver calls and the overshoot of a   *)
(* sleep are chosen by the environment and may be zero.                     *)
(***************************************************************************)
EXTENDS Integers, Sequences, FiniteSets, TLC

(* ---------------- bounds of the model (not program constants) ---------- *)
MaxCalls == 2            \* invocations of perform_website_check
MaxSlow == 2             \* driver calls / sleeps per invocation that run long
NewSlow == 300           \* duration of a slow BrowserEmulator::new
NavFast == 100           \* duration of a quick navigation
NavSlow == 31000         \* duration of a navigation longer than the timeout
PollSlow == 200          \* duration of a slow query / is_displayed call
SleepOver == 200         \* overshoot of a sleep that wakes late
VisibleSoon == 1200      \* early moment at which the element turns visible
VisibleLate == 29900     \* late moment, still before the timeout
MaxTargets == 2          \* length of the address list that the probe loop walks
MaxTicks == 2            \* rounds of the probe loop
MaxLines == 4            \* lines that stdin delivers to load_addresses
MaxRecords == 3          \* records of the registry file

Never == 0 - 1           \* "the element never becomes visible"
NewDelays == {0, NewSlow}
NavDelays == {0, NavFast, NavSlow}
VisibleDelays == {0, VisibleSoon, VisibleLate, Never}
Selectors == {"None", "Some"}

(* ---------------- program constants ------------------------------------ *)
DEFAULT_ELEMENT_WAIT_TIMEOUT_SECONDS == 30
POLL_SLEEP_MILLIS == 500
\* Duration::from_secs(DEFAULT_ELEMENT_WAIT_TIMEOUT_SECONDS), in ms
wait_timeout == DEFAULT_ELEMENT_WAIT_TIMEOUT_SECONDS * 1000
max_attempts_short == (wait_timeout \div 1000) * 2 - 1
\* wait_timeout.as_secs() * 2
max_attempts == (wait_timeout \div 1000) * 2

VARIABLES
  pc,             \* await point the invocation is at
  calls,          \* invocations started so far
  selector,       \* functional_criteria_selector: "None" or "Some"
  visibleAt,      \* environment: delay after start_time at which the element is visible
  now,            \* monotonic clock, ms since the invocation was entered
  start_time,     \* Instant recorded at the top of measure_load_time
  attempts,       \* loop counter of measure_load_time
  slow,           \* long-running calls used up in this invocation
  emulator,       \* TRUE while this invocation holds an opened session
  load_time,      \* result of measure_load_time
  close_result,   \* result of emulator.close()
  result,         \* value returned by measure_website_functional_time
  opens, navs, polls, sleeps, closes,   \* driver operations issued by this invocation
  nav_end,        \* elapsed time at which goto returned
  nav_result,     \* what goto returned: "none", "ok" or "error"
  poll_time,      \* time spent inside the last visibility poll
  prev_poll_time, \* time spent inside the visibility poll before it
  slept,          \* duration of the last sleep
  ret_at,         \* elapsed time at which measure_load_time returned
  visible_seen,   \* a poll has reported the element visible
  transport_seen, \* a driver call of a visibility poll failed with a transport error
  reported,       \* outcomes printed by perform_website_check, in order
  session,        \* id of the WebDriver session held by `emulator` (0: none)
  owner,          \* owner[s]: the invocation whose BrowserEmulator::new created session s
  quit_called,    \* sessions on which driver.quit() has been invoked
  used,           \* <<s, c>>: invocation c issued a driver command on session s
  stale_op,       \* a driver command was issued on a session already quit
  in_flight,      \* invocations entered and not yet returned
  main_done       \* main has gone past its perform_website_check calls

sess_vars == <<session, owner, quit_called, used, stale_op, in_flight,
               main_done>>
(* ---------------- the probe loop of main and is_port_open -------------- *)
VARIABLES
  addresses,      \* Vec<SocketAddr> of main, filled by load_addresses
  timeout,        \* timeout handed to is_port_open, ms
  loop_pc,        \* "off", or the statement the probe loop is at
  entry,          \* index of address_entry in the for loop
  tick,           \* completed rounds of the loop
  probes,         \* probes[i]: is_port_open calls for entry i in this round
  lines,          \* lines[i]: result lines printed for entry i in this round
  connects,       \* TcpStream::connect_timeout calls made so far
  port_calls,     \* is_port_open calls made so far
  outcome,        \* what the last connection attempt met
  is_open         \* value returned by the last is_port_open

probe_vars == <<addresses, timeout, loop_pc, entry, tick, probes, lines,
                connects, port_calls, outcome, is_open>>

\* the component is not running
ProbeOff ==
  /\ addresses = <<>> /\ timeout = 0 /\ loop_pc = "off" /\ entry = 0
  /\ tick = 0 /\ probes = <<>> /\ lines = <<>> /\ connects = 0
  /\ port_calls = 0 /\ outcome = "none" /\ is_open = FALSE

(* ---------------- load_addresses ---------------------------------------- *)
VARIABLES
  load_pc,        \* "off", "reading" (inside the loop) or "returned"
  initial,        \* the address list as it was handed to load_addresses
  lines_read,     \* the lines that read_line delivered, as indices of InputLines
  added,          \* added[k]: the endpoints pushed while handling line k
  reads,          \* read_line calls made
  stop_cause      \* why the loop was left: "none", "terminator", "read_error"

addr_vars == <<load_pc, initial, lines_read, added, reads, stop_cause>>

AddrOff ==
  /\ load_pc = "off" /\ initial = <<>> /\ lines_read = <<>> /\ added = <<>>
  /\ reads = 0 /\ stop_cause = "none"

(* ---------------- load_port_services ----------------------------------- *)
VARIABLES
  port_pc,         \* "off", "open" (before File::open), "loop" or "returned"
  records_read,    \* the records deserialized so far, as indices of the samples
  placed,          \* placed[k]: the table record k was inserted into, or "none"
  tcp_services,    \* the three tables, keyed by the port number text
  udp_services,
  range_services,
  load_result      \* "none", then "Ok" or "Err"

port_vars == <<port_pc, records_read, placed, tcp_services, udp_services,
               range_services, load_result>>

EmptyMap == [k \in {} |-> 0]

PortOff ==
  /\ port_pc = "off" /\ records_read = <<>> /\ placed = <<>>
  /\ tcp_services = EmptyMap /\ udp_services = EmptyMap
  /\ range_services = EmptyMap /\ load_result = "none"

\* state of the other components, untouched by the measurement
other_vars == <<probe_vars, addr_vars, port_vars>>
\* state that the probe loop leaves alone
probe_others == <<addr_vars, port_vars>>
\* state that load_port_services leaves alone
port_others == <<probe_vars, addr_vars>>
\* state that load_addresses leaves alone
addr_others == <<timeout, loop_pc, entry, tick, probes, lines, connects,
                 port_calls, outcome, is_open, port_vars>>

vars == <<pc, calls, selector, visibleAt, now, start_time, attempts, slow,
          emulator, load_time, close_result, result, opens, navs, polls,
          sleeps, closes, nav_end, poll_time, slept, ret_at, visible_seen,
          transport_seen, reported, nav_result, prev_poll_time,
          session, owner, quit_called, used, stale_op, in_flight, main_done,
          addresses, timeout, loop_pc, entry, tick, probes, lines, connects,
          port_calls, outcome, is_open,
          load_pc, initial, lines_read, added, reads, stop_cause,
          port_pc, records_read, placed, tcp_services, udp_services,
          range_services, load_result>>

measure_vars == <<pc, calls, selector, visibleAt, now, start_time, attempts,
                  slow, emulator, load_time, close_result, result, opens,
                  navs, polls, sleeps, closes, nav_end, poll_time, slept,
                  ret_at, visible_seen, transport_seen, reported, nav_result,
                  prev_poll_time, sess_vars>>

(* ---------------- values ------------------------------------------------ *)
NoResult == [kind |-> "none", duration |-> 0, err |-> "none"]
Ok(d) == [kind |-> "Ok", duration |-> d, err |-> "none"]
Err(e) == [kind |-> "Err", duration |-> 0, err |-> e]

Elapsed(t) == t - start_time

\* the element exists and is displayed at clock value t; a driver call that
\* runs from t1 to t2 may observe the page at any moment between the two
Visible(t) == visibleAt # Never /\ Elapsed(t) >= visibleAt

\* durations a driver call may take, given the long calls already used
CallDelays == IF slow < MaxSlow THEN {0, PollSlow} ELSE {0}
SleepDelays == IF slow < MaxSlow
               THEN {POLL_SLEEP_MILLIS, POLL_SLEEP_MILLIS + SleepOver}
               ELSE {POLL_SLEEP_MILLIS}
Slow(d, base) == IF d > base THEN slow + 1 ELSE slow

(* ---------------- pure decisions of the code --------------------------- *)
\* if let Some(selector) = functional_criteria_selector
AlwaysSelector(sel) == TRUE
HasSelector(sel) == sel # "None"

\* Err(_) if attempts >= max_attempts
AlwaysExhausted(a) == TRUE
AttemptsExhausted(a) == a >= max_attempts

\* if start_time.elapsed() > wait_timeout
DeadlineLate(e) == e > wait_timeout + 2 * POLL_SLEEP_MILLIS
DeadlinePassed(e) == e > wait_timeout

\* if element.is_displayed().await? { break; }
FoundIsEnough(r) == r # "error"
ElementDisplayed(r) == r = "true"

\* match load_time { Ok(duration) => Ok(duration), Err(e) => Err(Box::new(e)) }
MatchCloseFirst(lt, cr) == IF cr.kind = "Err" THEN cr ELSE lt
MatchResult(lt, cr) == lt

\* a command is sent to the WebDriver session s by the running invocation
UseSession(s) ==
  /\ used' = used \cup {<<s, calls>>}
  /\ stale_op' = (stale_op \/ s \in quit_called)

(* ---------------- state machine ----------------------------------------- *)
MeasureInit ==
  /\ pc = "idle" /\ calls = 0
  /\ selector = "None" /\ visibleAt = Never
  /\ now = 0 /\ start_time = 0 /\ attempts = 0 /\ slow = 0
  /\ emulator = FALSE
  /\ load_time = NoResult /\ close_result = NoResult /\ result = NoResult
  /\ opens = 0 /\ navs = 0 /\ polls = 0 /\ sleeps = 0 /\ closes = 0
  /\ nav_end = 0 /\ poll_time = 0 /\ slept = 0 /\ ret_at = 0
  /\ nav_result = "none" /\ prev_poll_time = 0
  /\ visible_seen = FALSE /\ transport_seen = FALSE
  /\ reported = <<>>
  /\ session = 0 /\ owner = <<>> /\ quit_called = {} /\ used = {}
  /\ stale_op = FALSE /\ in_flight = 0 /\ main_done = FALSE

Init == MeasureInit /\ ProbeOff /\ AddrOff /\ PortOff

\* perform_website_check enters measure_website_functional_time
CallWithoutAwait(sel, vis) ==
  /\ pc \in {"idle", "goto", "close", "done"} /\ calls < MaxCalls
  /\ sel = "None" => vis = Never
  /\ pc' = "new" /\ calls' = calls + 1
  /\ selector' = sel /\ visibleAt' = vis
  /\ now' = 0 /\ start_time' = 0 /\ attempts' = 0 /\ slow' = 0
  /\ emulator' = FALSE
  /\ load_time' = NoResult /\ close_result' = NoResult /\ result' = NoResult
  /\ opens' = 0 /\ navs' = 0 /\ polls' = 0 /\ sleeps' = 0 /\ closes' = 0
  /\ nav_end' = 0 /\ poll_time' = 0 /\ slept' = 0 /\ ret_at' = 0
  /\ nav_result' = "none" /\ prev_poll_time' = 0
  /\ visible_seen' = FALSE /\ transport_seen' = FALSE
  /\ UNCHANGED reported
  /\ ~main_done /\ in_flight' = in_flight + 1 /\ session' = 0
  /\ UNCHANGED <<owner, quit_called, used, stale_op, main_done>>
  /\ UNCHANGED other_vars
Call(sel, vis) ==
  /\ pc = "idle" /\ calls < MaxCalls
  /\ sel = "None" => vis = Never
  /\ pc' = "new" /\ calls' = calls + 1
  /\ selector' = sel /\ visibleAt' = vis
  /\ now' = 0 /\ start_time' = 0 /\ attempts' = 0 /\ slow' = 0
  /\ emulator' = FALSE
  /\ load_time' = NoResult /\ close_result' = NoResult /\ result' = NoResult
  /\ opens' = 0 /\ navs' = 0 /\ polls' = 0 /\ sleeps' = 0 /\ closes' = 0
  /\ nav_end' = 0 /\ poll_time' = 0 /\ slept' = 0 /\ ret_at' = 0
  /\ nav_result' = "none" /\ prev_poll_time' = 0
  /\ visible_seen' = FALSE /\ transport_seen' = FALSE
  /\ UNCHANGED reported
  /\ ~main_done /\ in_flight' = in_flight + 1 /\ session' = 0
  /\ UNCHANGED <<owner, quit_called, used, stale_op, main_done>>
  /\ UNCHANGED other_vars

\* BrowserEmulator::new(..).await succeeds; measure_load_time records start_time
NewOkReusing(d) ==
  /\ pc = "new"
  /\ now' = now + d /\ start_time' = now + d
  /\ emulator' = TRUE /\ opens' = opens + 1
  /\ pc' = "goto"
  /\ UNCHANGED <<calls, selector, visibleAt, attempts, slow, load_time,
                 close_result, result, navs, polls, sleeps, closes, nav_end,
                 poll_time, slept, ret_at, visible_seen, transport_seen,
                 reported, nav_result,
                 prev_poll_time>>
  /\ owner' = (IF owner = <<>> THEN <<calls>> ELSE owner) /\ session' = 1
  /\ UNCHANGED <<quit_called, used, stale_op, in_flight, main_done>>
  /\ UNCHANGED other_vars
NewOk(d) ==
  /\ pc = "new"
  /\ now' = now + d /\ start_time' = now + d
  /\ emulator' = TRUE /\ opens' = opens + 1
  /\ pc' = "goto"
  /\ UNCHANGED <<calls, selector, visibleAt, attempts, slow, load_time,
                 close_result, result, navs, polls, sleeps, closes, nav_end,
                 poll_time, slept, ret_at, visible_seen, transport_seen,
                 reported, nav_result,
                 prev_poll_time>>
  /\ owner' = Append(owner, calls) /\ session' = Len(owner) + 1
  /\ UNCHANGED <<quit_called, used, stale_op, in_flight, main_done>>
  /\ UNCHANGED other_vars

\* BrowserEmulator::new(..).await? fails: the error is returned at once
NewFailClosing(d) ==
  /\ pc = "new"
  /\ now' = now + d
  /\ result' = Err("SessionUnavailable")
  /\ closes' = closes + 1
  /\ pc' = "done"
  /\ UNCHANGED <<calls, selector, visibleAt, start_time, attempts, slow,
                 emulator, load_time, close_result, opens, navs, polls,
                 sleeps, nav_end, poll_time, slept, ret_at,
                 visible_seen, transport_seen, reported, nav_result,
                 prev_poll_time>>
  /\ UNCHANGED sess_vars
  /\ UNCHANGED other_vars
NewFail(d) ==
  /\ pc = "new"
  /\ now' = now + d
  /\ result' = Err("SessionUnavailable")
  /\ pc' = "done"
  /\ UNCHANGED <<calls, selector, visibleAt, start_time, attempts, slow,
                 emulator, load_time, close_result, opens, navs, polls,
                 sleeps, closes, nav_end, poll_time, slept, ret_at,
                 visible_seen, transport_seen, reported, nav_result,
                 prev_poll_time>>
  /\ UNCHANGED sess_vars
  /\ UNCHANGED other_vars

\* measure_load_time returns r to measure_website_functional_time, which
\* goes on to emulator.close()
FinishPropagate(r, t) ==
  /\ load_time' = r /\ ret_at' = Elapsed(t)
  /\ IF r.kind = "Err"
     THEN pc' = "done" /\ result' = r
     ELSE pc' = "close" /\ UNCHANGED result
Finish(r, t) ==
  /\ load_time' = r /\ ret_at' = Elapsed(t)
  /\ pc' = "close" /\ UNCHANGED result

\* loop { match self.driver.query(..) ..: the loop is entered at the
\* element query, with no test of the deadline before the first poll
EnterLoopDeadlineFirst(t) ==
  IF DeadlinePassed(Elapsed(t)) THEN Finish(Err("Timeout"), t)
  ELSE /\ pc' = "query"
       /\ UNCHANGED <<load_time, ret_at, result>>
EnterLoop(t) ==
  /\ pc' = "query"
  /\ UNCHANGED <<load_time, ret_at, result>>

\* where measure_load_time goes once goto has returned r
AfterGotoIgnoringError(r, t) ==
  IF HasSelector(selector)
  THEN EnterLoop(t)
  ELSE Finish(Ok(Elapsed(t)), t)
AfterGoto(r, t) ==
  IF r = "error" THEN Finish(Err("Navigation"), t)
  ELSE IF HasSelector(selector)
  THEN EnterLoop(t)
  ELSE Finish(Ok(Elapsed(t)), t)

\* self.driver.goto(url).await?
Goto(d, r) ==
  /\ pc = "goto"
  /\ now' = now + d /\ navs' = navs + 1
  /\ nav_end' = Elapsed(now + d) /\ nav_result' = r
  /\ attempts' = 0
  /\ AfterGoto(r, now + d)
  /\ UNCHANGED <<calls, selector, visibleAt, start_time, slow, emulator,
                 close_result, opens, polls, sleeps, closes, poll_time,
                 slept, visible_seen, transport_seen, reported, prev_poll_time>>
  /\ UseSession(session)
  /\ UNCHANGED <<session, owner, quit_called, in_flight, main_done>>
  /\ UNCHANGED other_vars

\* self.driver.query(by.clone()).first().await and the match on its result
Query(d, r) ==
  /\ pc = "query"
  /\ Visible(now) => r # "absent"
  /\ now' = now + d /\ polls' = polls + 1
  /\ slow' = Slow(d, 0) /\ poll_time' = d /\ prev_poll_time' = poll_time
  /\ transport_seen' = (transport_seen \/ r = "transport")
  /\ IF r = "found"
     THEN /\ pc' = "is_displayed"
          /\ UNCHANGED <<attempts, load_time, ret_at, result>>
     ELSE IF AttemptsExhausted(attempts)
     THEN /\ Finish(Err("NoSuchElement"), now + d)
          /\ UNCHANGED attempts
     ELSE /\ attempts' = attempts + 1
          /\ pc' = "sleep"
          /\ UNCHANGED <<load_time, ret_at, result>>
  /\ UNCHANGED <<calls, selector, visibleAt, start_time, emulator,
                 close_result, opens, navs, sleeps, closes, nav_end, slept,
                 visible_seen, reported, nav_result>>
  /\ UseSession(session)
  /\ UNCHANGED <<session, owner, quit_called, in_flight, main_done>>
  /\ UNCHANGED other_vars

\* element.is_displayed().await? and the break
IsDisplayed(d, r) ==
  /\ pc = "is_displayed"
  /\ Visible(now) => r # "false"
  /\ ~Visible(now + d) => r # "true"
  /\ now' = now + d
  /\ slow' = Slow(d, 0) /\ poll_time' = poll_time + d
  /\ transport_seen' = (transport_seen \/ r = "error")
  /\ visible_seen' = (visible_seen \/ r = "true")
  /\ IF r = "error"
     THEN /\ Finish(Err("Driver"), now + d)
          /\ UNCHANGED attempts
     ELSE IF ElementDisplayed(r)
     THEN /\ Finish(Ok(Elapsed(now + d)), now + d)
          /\ UNCHANGED attempts
     ELSE /\ attempts' = attempts + 1
          /\ pc' = "sleep"
          /\ UNCHANGED <<load_time, ret_at, result>>
  /\ UNCHANGED <<calls, selector, visibleAt, start_time, emulator,
                 close_result, opens, navs, polls, sleeps, closes, nav_end,
                 slept, reported, nav_result, prev_poll_time>>
  /\ UseSession(session)
  /\ UNCHANGED <<session, owner, quit_called, in_flight, main_done>>
  /\ UNCHANGED other_vars

\* tokio::time::sleep(Duration::from_millis(500)).await and the deadline test
Sleep(d) ==
  /\ pc = "sleep"
  /\ now' = now + d /\ sleeps' = sleeps + 1
  /\ slow' = Slow(d, POLL_SLEEP_MILLIS) /\ slept' = d
  /\ IF DeadlinePassed(Elapsed(now + d))
     THEN Finish(Err("Timeout"), now + d)
     ELSE /\ pc' = "query"
          /\ UNCHANGED <<load_time, ret_at, result>>
  /\ UNCHANGED <<calls, selector, visibleAt, start_time, attempts, emulator,
                 opens, navs, polls, closes, nav_end, poll_time,
                 close_result, visible_seen, transport_seen, reported,
                 nav_result, prev_poll_time>>
  /\ UNCHANGED sess_vars
  /\ UNCHANGED other_vars

\* emulator.close().await and the match that builds the returned value
Close(r) ==
  /\ pc = "close"
  /\ closes' = closes + 1
  /\ emulator' = FALSE
  /\ close_result' = r
  /\ result' = MatchResult(load_time, r)
  /\ pc' = "done"
  /\ UNCHANGED <<calls, selector, visibleAt, now, start_time, attempts, slow,
                 load_time, opens, navs, polls, sleeps, nav_end, poll_time,
                 slept, ret_at, visible_seen, transport_seen, reported, nav_result,
                 prev_poll_time>>
  /\ UseSession(session)
  /\ quit_called' = quit_called \cup {session}
  /\ UNCHANGED <<session, owner, in_flight, main_done>>
  /\ UNCHANGED other_vars

\* perform_website_check prints the outcome and returns to main
ReturnAbortOnError ==
  /\ pc = "done"
  /\ reported' = Append(reported, result.kind)
  /\ pc' = "idle"
  /\ UNCHANGED <<calls, selector, visibleAt, now, start_time, attempts, slow,
                 emulator, load_time, close_result, result, opens, navs,
                 polls, sleeps, closes, nav_end, poll_time, slept, ret_at,
                 visible_seen, transport_seen, nav_result,
                 prev_poll_time>>
  /\ in_flight' = in_flight - 1
  /\ main_done' = (calls = MaxCalls \/ result.kind = "Err")
  /\ UNCHANGED <<session, owner, quit_called, used, stale_op>>
  /\ UNCHANGED other_vars
Return ==
  /\ pc = "done"
  /\ reported' = Append(reported, result.kind)
  /\ pc' = "idle"
  /\ UNCHANGED <<calls, selector, visibleAt, now, start_time, attempts, slow,
                 emulator, load_time, close_result, result, opens, navs,
                 polls, sleeps, closes, nav_end, poll_time, slept, ret_at,
                 visible_seen, transport_seen, nav_result,
                 prev_poll_time>>
  /\ in_flight' = in_flight - 1
  /\ main_done' = (calls = MaxCalls)
  /\ UNCHANGED <<session, owner, quit_called, used, stale_op>>
  /\ UNCHANGED other_vars

Next ==
  \/ \E sel \in Selectors, vis \in VisibleDelays : Call(sel, vis)
  \/ \E d \in NewDelays : NewOk(d)
  \/ \E d \in NewDelays : NewFail(d)
  \/ \E d \in NavDelays, r \in {"ok", "error"} : Goto(d, r)
  \/ \E d \in CallDelays, r \in {"found", "absent", "transport"} : Query(d, r)
  \/ \E d \in CallDelays, r \in {"true", "false", "error"} : IsDisplayed(d, r)
  \/ \E d \in SleepDelays : Sleep(d)
  \/ \E r \in {Ok(0), Err("Quit")} : Close(r)
  \/ Return

Spec == Init /\ [][Next]_vars

(* ---------------- one invocation of measure_load_time ------------------- *)
\* the state in which measure_load_time is entered: the session was opened
\* by BrowserEmulator::new and start_time is taken
WaitInit ==
  /\ pc = "goto" /\ calls = 1
  /\ selector \in Selectors /\ visibleAt \in VisibleDelays
  /\ selector = "None" => visibleAt = Never
  /\ now \in NewDelays /\ start_time = now /\ attempts = 0 /\ slow = 0
  /\ emulator = TRUE
  /\ load_time = NoResult /\ close_result = NoResult /\ result = NoResult
  /\ opens = 1 /\ navs = 0 /\ polls = 0 /\ sleeps = 0 /\ closes = 0
  /\ nav_end = 0 /\ poll_time = 0 /\ slept = 0 /\ ret_at = 0
  /\ nav_result = "none" /\ prev_poll_time = 0
  /\ visible_seen = FALSE /\ transport_seen = FALSE
  /\ reported = <<>>
  /\ session = 1 /\ owner = <<1>> /\ quit_called = {} /\ used = {}
  /\ stale_op = FALSE /\ in_flight = 1 /\ main_done = FALSE
  /\ ProbeOff /\ AddrOff /\ PortOff

\* the await points of measure_load_time
WaitNext ==
  \/ \E d \in NavDelays, r \in {"ok", "error"} : Goto(d, r)
  \/ \E d \in CallDelays, r \in {"found", "absent", "transport"} : Query(d, r)
  \/ \E d \in CallDelays, r \in {"true", "false", "error"} : IsDisplayed(d, r)
  \/ \E d \in SleepDelays : Sleep(d)

\* every driver call and every sleep returns
WaitSpec == WaitInit /\ [][WaitNext]_vars /\ WF_vars(WaitNext)

(* ---------------- probe loop: main.rs 82-113, ping_test.rs 7-9 --------- *)
TIMEOUT_MILLIS == 1000
Timeouts == {0, TIMEOUT_MILLIS}
Endpoint(h, p) == [host |-> h, port |-> p]
ProbeTargets == {Endpoint(<<127, 0, 0, 1>>, 8080), Endpoint(<<8, 8, 8, 8>>, 53)}
AddressLists ==
  UNION {[1..n -> ProbeTargets] : n \in 0..MaxTargets}
Zeros(n) == [i \in 1..n |-> 0]

\* what a connection attempt can meet: a zero timeout is rejected by
\* connect_timeout unless the connection is made or refused at once
ConnectOutcomes(t) ==
  IF t = 0 THEN {"connected", "refused", "unreachable", "invalid_timeout"}
  ELSE {"connected", "refused", "unreachable", "timed_out"}
\* TcpStream::connect_timeout(&addr, timeout)
connect_timeout(o) == IF o = "connected" THEN Ok(0) ELSE Err(o)
\* TcpStream::connect_timeout(&addr, timeout).is_ok()
is_port_open_unless_refused(o) == o # "refused"
is_port_open(o) == connect_timeout(o).kind = "Ok"

ProbeInit ==
  /\ MeasureInit /\ AddrOff /\ PortOff
  /\ addresses \in AddressLists /\ timeout \in Timeouts
  /\ loop_pc = (IF addresses = <<>> THEN "sleep" ELSE "print")
  /\ entry = (IF addresses = <<>> THEN 0 ELSE 1)
  /\ tick = 0
  /\ probes = Zeros(Len(addresses)) /\ lines = Zeros(Len(addresses))
  /\ connects = 0 /\ port_calls = 0 /\ outcome = "none" /\ is_open = FALSE

\* one call of is_port_open for address_entry
PortCall(o) ==
  /\ outcome' = o
  /\ is_open' = is_port_open(o)
  /\ connects' = connects + 1 /\ port_calls' = port_calls + 1
  /\ probes' = [probes EXCEPT ![entry] = @ + 1]

\* println!("{}", is_port_open(*address_entry, timeout));
ProbePrint(o) ==
  /\ loop_pc = "print"
  /\ PortCall(o)
  /\ lines' = [lines EXCEPT ![entry] = @ + 1]
  /\ loop_pc' = "if"
  /\ UNCHANGED <<addresses, timeout, entry, tick>>
  /\ UNCHANGED measure_vars /\ UNCHANGED probe_others

\* if is_port_open(*address_entry, timeout) { println!(..) } else { println!(..) }
ProbeIf(o) ==
  /\ loop_pc = "if"
  /\ PortCall(o)
  /\ lines' = [lines EXCEPT ![entry] = @ + 1]
  /\ IF entry < Len(addresses)
     THEN loop_pc' = "print" /\ entry' = entry + 1
     ELSE loop_pc' = "sleep" /\ UNCHANGED entry
  /\ UNCHANGED <<addresses, timeout, tick>>
  /\ UNCHANGED measure_vars /\ UNCHANGED probe_others

\* thread::sleep(Duration::from_secs(60)) and the next round of the loop
TickSleep ==
  /\ loop_pc = "sleep" /\ tick < MaxTicks
  /\ tick' = tick + 1
  /\ probes' = Zeros(Len(addresses)) /\ lines' = Zeros(Len(addresses))
  /\ loop_pc' = (IF addresses = <<>> THEN "sleep" ELSE "print")
  /\ entry' = (IF addresses = <<>> THEN 0 ELSE 1)
  /\ UNCHANGED <<addresses, timeout, connects, port_calls, outcome, is_open>>
  /\ UNCHANGED measure_vars /\ UNCHANGED probe_others

ProbeNext ==
  \/ \E o \in ConnectOutcomes(timeout) : ProbePrint(o)
  \/ \E o \in ConnectOutcomes(timeout) : ProbeIf(o)
  \/ TickSleep

ProbeSpec == ProbeInit /\ [][ProbeNext]_vars

(* ---------------- load_addresses: address.rs 4-71 ----------------------- *)
\* Text is a sequence of one-character strings.
Digits == <<"0", "1", "2", "3", "4", "5", "6", "7", "8", "9">>
UpperCase == <<"A", "B", "C", "D", "E", "F", "G", "H", "I", "J", "K", "L", "M",
               "N", "O", "P", "Q", "R", "S", "T", "U", "V", "W", "X", "Y", "Z">>
LowerCase == <<"a", "b", "c", "d", "e", "f", "g", "h", "i", "j", "k", "l", "m",
               "n", "o", "p", "q", "r", "s", "t", "u", "v", "w", "x", "y", "z">>
IsSpace(c) == c \in {" ", "\t", "\n", "\r"}
IsDigit(c) == \E i \in 1..10 : Digits[i] = c
DigitVal(c) == (CHOOSE i \in 1..10 : Digits[i] = c) - 1
\* u8::to_ascii_lowercase
Lower(c) ==
  IF \E i \in 1..26 : UpperCase[i] = c
  THEN LowerCase[CHOOSE i \in 1..26 : UpperCase[i] = c]
  ELSE c

\* str::trim
RECURSIVE TrimStart(_)
TrimStart(t) ==
  IF t # <<>> /\ IsSpace(Head(t)) THEN TrimStart(Tail(t)) ELSE t
RECURSIVE TrimEnd(_)
TrimEnd(t) ==
  IF t # <<>> /\ IsSpace(t[Len(t)])
  THEN TrimEnd(SubSeq(t, 1, Len(t) - 1)) ELSE t
Trim(t) == TrimEnd(TrimStart(t))

\* str::eq_ignore_ascii_case
eq_ignore_ascii_case(t, u) ==
  Len(t) = Len(u) /\ \A i \in 1..Len(t) : Lower(t[i]) = Lower(u[i])

\* str::split(c).collect()
RECURSIVE Split(_, _)
Split(t, c) ==
  IF \A i \in 1..Len(t) : t[i] # c THEN <<t>>
  ELSE LET i == CHOOSE i \in 1..Len(t) :
                    t[i] = c /\ \A j \in 1..(i - 1) : t[j] # c
       IN  <<SubSeq(t, 1, i - 1)>> \o Split(SubSeq(t, i + 1, Len(t)), c)

RECURSIVE Value(_)
Value(ds) ==
  IF ds = <<>> THEN 0
  ELSE Value(SubSeq(ds, 1, Len(ds) - 1)) * 10 + DigitVal(ds[Len(ds)])

\* <unsigned>::from_str: an optional "+", then one or more decimal digits
\* whose value fits the type
ParseUnsigned(t, max) ==
  LET ds == IF t # <<>> /\ Head(t) = "+" THEN Tail(t) ELSE t
      ok == /\ ds # <<>>
            /\ \A i \in 1..Len(ds) : IsDigit(ds[i])
            /\ Len(ds) <= 9
            /\ Value(ds) <= max
  IN  [ok |-> ok, val |-> IF ok THEN Value(ds) ELSE 0]
\* port_str.parse::<u16>()
ParseI16(t) == ParseUnsigned(t, 32767)
ParseU16(t) == ParseUnsigned(t, 65535)

\* host_str.parse::<Ipv4Addr>(): four decimal octets separated by dots, each
\* of one to three digits, at most 255, without a leading zero
OctetOk(t) ==
  /\ Len(t) \in 1..3
  /\ \A i \in 1..Len(t) : IsDigit(t[i])
  /\ Len(t) > 1 => t[1] # "0"
  /\ Value(t) <= 255
ParseIpv4(t) ==
  LET ps == Split(t, ".")
      ok == Len(ps) = 4 /\ \A i \in 1..4 : OctetOk(ps[i])
  IN  [ok |-> ok,
       val |-> IF ok THEN [i \in 1..4 |-> Value(ps[i])] ELSE <<0, 0, 0, 0>>]

DONE == <<"d", "o", "n", "e">>
default_port == 443

\* trimmed_input.is_empty() || trimmed_input.eq_ignore_ascii_case("done")
IsTerminatorExact(t) == t = <<>> \/ t = DONE
IsTerminator(t) == t = <<>> \/ eq_ignore_ascii_case(t, DONE)

\* if port == 0 { default_port } else { port }
KeepPort(port) == port
NonZeroPort(port) == IF port = 0 THEN default_port ELSE port

\* the match on port_str.parse::<u16>()
PortNumber(port_str) ==
  LET parsed == ParseU16(port_str)
  IN  IF parsed.ok THEN NonZeroPort(parsed.val) ELSE default_port

\* the Err arm of the match on host_str.parse::<Ipv4Addr>(): the error is
\* printed and the loop goes on
OnBadHostBreak == [push |-> <<>>, stop |-> TRUE]
OnBadHost == [push |-> <<>>, stop |-> FALSE]

\* the body of the loop for one line that read_line delivered
HandleLine(input) ==
  LET trimmed_input == Trim(input)
      parts == Split(trimmed_input, ":")
  IN  IF IsTerminator(trimmed_input) THEN [push |-> <<>>, stop |-> TRUE]
      ELSE IF Len(parts) = 2
      THEN LET host_str == Trim(parts[1])
               port_str == Trim(parts[2])
               host == ParseIpv4(host_str)
           IN  IF host.ok
               THEN [push |-> <<Endpoint(host.val, PortNumber(port_str))>>,
                     stop |-> FALSE]
               ELSE OnBadHost
      ELSE [push |-> <<>>, stop |-> FALSE]

\* addresses.push(new_socket_addr), for the zero or one endpoints of a line
push_unique(list, items) ==
  IF \A i \in 1..Len(items) : \E j \in 1..Len(list) : list[j] = items[i]
  THEN list ELSE list \o items
push(list, items) == list \o items

\* lines that stdin can deliver
InputLines ==
  << <<"1", "0", ".", "0", ".", "0", ".", "1", ":", "8", "0", "\n">>,
     <<"b", "a", "d", "h", "o", "s", "t", ":", "8", "0", "\n">>,
     <<"1", "0", ".", "0", ".", "0", ".", "2", ":", "0", "\n">>,
     <<"d", "o", "n", "e", "\n">>,
     <<"\n">>,
     <<" ", " ", "D", "o", "N", "e", " ", "\n">>,
     <<" ", "1", "0", ".", "0", ".", "0", ".", "1", " ", ":", " ", "6", "5", "5", "3", "6", " ", "\n">>,
     <<"1", "0", ".", "0", ".", "0", ".", "1", ":", "a", "b", "c", "\n">>,
     <<"1", ".", "2", ".", "3", ".", "4", ":", "5", ":", "6", "\n">>,
     <<"1", "9", "2", ".", "1", "6", "8", ".", "1", ".", "1", ":", "6", "5", "5", "3", "5", "\n">>,
     <<"2", "5", "6", ".", "0", ".", "0", ".", "1", ":", "8", "0", "\n">> >>

InitialLists == {<<>>, <<Endpoint(<<8, 8, 8, 8>>, 53)>>}

AddrInit ==
  /\ MeasureInit /\ PortOff
  /\ addresses \in InitialLists /\ initial = addresses
  /\ load_pc = "reading" /\ lines_read = <<>> /\ added = <<>>
  /\ reads = 0 /\ stop_cause = "none"
  /\ timeout = 0 /\ loop_pc = "off" /\ entry = 0 /\ tick = 0
  /\ probes = <<>> /\ lines = <<>> /\ connects = 0 /\ port_calls = 0
  /\ outcome = "none" /\ is_open = FALSE

\* io::stdin().read_line(&mut input) returns Ok with line n, and the loop
\* body handles it
ReadLine(n) ==
  /\ load_pc = "reading" /\ Len(lines_read) < MaxLines
  /\ LET h == HandleLine(InputLines[n])
     IN  /\ addresses' = push(addresses, h.push)
         /\ added' = Append(added, h.push)
         /\ load_pc' = (IF h.stop THEN "returned" ELSE "reading")
         /\ stop_cause' = (IF h.stop THEN "terminator" ELSE "none")
  /\ lines_read' = Append(lines_read, n)
  /\ reads' = reads + 1
  /\ UNCHANGED initial
  /\ UNCHANGED measure_vars /\ UNCHANGED addr_others

\* io::stdin().read_line(&mut input) returns Err: the loop is left
ReadError ==
  /\ load_pc = "reading"
  /\ reads' = reads + 1
  /\ load_pc' = "returned" /\ stop_cause' = "read_error"
  /\ UNCHANGED <<addresses, initial, lines_read, added>>
  /\ UNCHANGED measure_vars /\ UNCHANGED addr_others

AddrNext ==
  \/ \E n \in 1..Len(InputLines) : ReadLine(n)
  \/ ReadError

AddrSpec == AddrInit /\ [][AddrNext]_vars

(* ---------------- load_port_services: iana_ports.rs 38-76 --------------- *)
\* the three columns of PortRecord that the function reads
PortRecord(name, number, protocol) ==
  [service_name |-> name, port_number |-> number,
   transport_protocol |-> protocol]

\* str::contains with a one-character pattern
starts_with(t, c) == t # <<>> /\ Head(t) = c
contains(t, c) == \E i \in 1..Len(t) : t[i] = c

\* str::to_lowercase on ASCII text
to_lowercase(t) == [i \in 1..Len(t) |-> Lower(t[i])]

\* HashMap::insert: a value already stored under the key is replaced
Insert(map, k, v) ==
  [x \in (DOMAIN map) \cup {k} |-> IF x = k THEN v ELSE map[x]]

\* match record.transport_protocol.to_lowercase().as_str()
ProtocolTableTcpElse(protocol) ==
  IF to_lowercase(protocol) = <<"u", "d", "p">> THEN "udp" ELSE "tcp"
ProtocolTable(protocol) ==
  IF to_lowercase(protocol) = <<"t", "c", "p">> THEN "tcp"
  ELSE IF to_lowercase(protocol) = <<"u", "d", "p">> THEN "udp"
  ELSE "none"

\* where the loop body puts one record
Table(record) ==
  IF record.port_number # <<>> /\ record.service_name # <<>>
  THEN IF contains(record.port_number, "-") THEN "range"
       ELSE IF ParseU16(record.port_number).ok
       THEN ProtocolTable(record.transport_protocol)
       ELSE "none"
  ELSE "none"

\* records that the file can hold
RegistryRecords ==
  << PortRecord(<<"f", "t", "p">>, <<"2", "0", "-", "2", "5">>, <<"t", "c", "p">>),
     PortRecord(<<"x", "1", "1">>, <<"2", "0", "-", "2", "5">>, <<"u", "d", "p">>),
     PortRecord(<<"x", "r">>, <<"6", "0", "0", "0", "-", "6", "0", "6", "3">>, <<>>),
     PortRecord(<<>>, <<"2", "0", "-", "2", "5">>, <<"t", "c", "p">>),
     PortRecord(<<"h", "t", "t", "p">>, <<"8", "0">>, <<"T", "C", "P">>),
     PortRecord(<<"h", "t", "t", "p">>, <<"8", "0">>, <<"u", "d", "p">>),
     PortRecord(<<"d", "n", "s">>, <<"5", "3">>, <<"s", "c", "t", "p">>),
     PortRecord(<<"b", "i", "g">>, <<"6", "5", "5", "3", "6">>, <<"t", "c", "p">>),
     PortRecord(<<"n", "p">>, <<>>, <<"t", "c", "p">>),
     PortRecord(<<"n", "e", "g">>, <<"-", "1">>, <<"t", "c", "p">>),
     PortRecord(<<"z", "e", "r", "o">>, <<"0">>, <<"U", "d", "p">>),
     PortRecord(<<>>, <<"8", "0">>, <<"t", "c", "p">>) >>

PortInit ==
  /\ MeasureInit /\ ProbeOff /\ AddrOff
  /\ port_pc = "open" /\ records_read = <<>> /\ placed = <<>>
  /\ tcp_services = EmptyMap /\ udp_services = EmptyMap
  /\ range_services = EmptyMap /\ load_result = "none"

\* File::open(file_path)? succeeds or returns the error
OpenFile(ok) ==
  /\ port_pc = "open"
  /\ port_pc' = (IF ok THEN "loop" ELSE "returned")
  /\ load_result' = (IF ok THEN "none" ELSE "Err")
  /\ UNCHANGED <<records_read, placed, tcp_services, udp_services,
                 range_services>>
  /\ UNCHANGED measure_vars /\ UNCHANGED port_others

\* one iteration of the loop over rdr.deserialize() for record n
LoadRecord(n) ==
  /\ port_pc = "loop" /\ Len(records_read) < MaxRecords
  /\ LET record == RegistryRecords[n]
         table == Table(record)
     IN  /\ placed' = Append(placed, table)
         /\ range_services' =
              (IF table = "range"
               THEN Insert(range_services, record.port_number, record)
               ELSE range_services)
         /\ tcp_services' =
              (IF table = "tcp"
               THEN Insert(tcp_services, record.port_number, record)
               ELSE tcp_services)
         /\ udp_services' =
              (IF table = "udp"
               THEN Insert(udp_services, record.port_number, record)
               ELSE udp_services)
  /\ records_read' = Append(records_read, n)
  /\ UNCHANGED <<port_pc, load_result>>
  /\ UNCHANGED measure_vars /\ UNCHANGED port_others

\* result? on a record that does not deserialize: the function returns Err
RecordError ==
  /\ port_pc = "loop"
  /\ port_pc' = "returned" /\ load_result' = "Err"
  /\ UNCHANGED <<records_read, placed, tcp_services, udp_services,
                 range_services>>
  /\ UNCHANGED measure_vars /\ UNCHANGED port_others

\* the iterator is exhausted: Ok((tcp_services, udp_services))
EndOfFile ==
  /\ port_pc = "loop"
  /\ port_pc' = "returned" /\ load_result' = "Ok"
  /\ UNCHANGED <<records_read, placed, tcp_services, udp_services,
                 range_services>>
  /\ UNCHANGED measure_vars /\ UNCHANGED port_others

PortNext ==
  \/ \E ok \in BOOLEAN : OpenFile(ok)
  \/ \E n \in 1..Len(RegistryRecords) : LoadRecord(n)
  \/ RecordError
  \/ EndOfFile

PortSpec == PortInit /\ [][PortNext]_vars

(* ---------------- properties -------------------------------------------- *)
Returned == pc \in {"done", "idle"} /\ calls > 0
Max(a, b) == IF a >= b THEN a ELSE b
\* the invocation polled an element that never turned visible, and no driver
\* call of a poll failed with a transport error
NeverVisibleRun ==
  /\ selector = "Some" /\ nav_result = "ok"
  /\ visibleAt = Never /\ ~transport_seen
WaitFailure == load_time.err \in {"Timeout", "NoSuchElement"}

\* C1: when the session was opened, close has been invoked on it exactly once
\* by the time measure_website_functional_time has returned, whatever
\* measure_load_time returned (and never more than once before that); when
\* opening the session failed, close has been invoked zero times.
C1_CloseExactlyOnce ==
  /\ closes <= 1
  /\ (Returned /\ opens = 1) => closes = 1
  /\ (Returned /\ opens = 0) => closes = 0
  /\ result # NoResult => closes = opens
C1_Witness ==
  pc = "done" /\ opens = 1 /\ load_time.err = "Timeout" /\ closes = 1

\* C2: the value returned by measure_website_functional_time is the outcome of
\* measure_load_time, Ok(d) or the same error e, whether close succeeded or
\* failed; the error of a failed close is never the returned value.
C2_ResultFromLoadTime ==
  (Returned /\ opens = 1) =>
     /\ load_time.kind = "Ok" => result = Ok(load_time.duration)
     /\ load_time.kind = "Err" => result = Err(load_time.err)
     /\ load_time.kind # "none"
     /\ result.err # "Quit"
C2_Witness ==
  /\ pc = "done" /\ close_result.kind = "Err"
  /\ load_time.kind = "Ok" /\ result = Ok(load_time.duration)

\* C3 (as claimed): with a selector that never becomes visible and no
\* transport failure, the measurement always ends in the Timeout failure.
C3_AlwaysTimeout ==
  (Returned /\ NeverVisibleRun) => load_time = Err("Timeout")
\* C3 (amended): with a selector that never becomes visible and no transport
\* failure, the measurement never ends in success; it ends in Timeout, or in
\* the NoSuchElement built by the wait loop, the latter only at the 61st poll,
\* issued when exactly 30 s had elapsed at the 60th deadline test.
C3_TimeoutOrNoSuchElement ==
  (Returned /\ NeverVisibleRun) =>
     /\ load_time.kind = "Err" /\ WaitFailure
     /\ load_time.err = "NoSuchElement" =>
          (polls = max_attempts + 1 /\ ret_at = wait_timeout + poll_time)
C3_Witness ==
  /\ pc = "done" /\ NeverVisibleRun /\ load_time = Err("Timeout")
  /\ polls > 1

\* C4: measure_load_time returns an element-wait failure (Timeout, or the
\* NoSuchElement built by the wait loop) only when at least the 30 s timeout
\* has elapsed since start_time.
C4_NoEarlyWaitFailure ==
  WaitFailure => ret_at >= wait_timeout
C4_Witness ==
  pc = "done" /\ load_time = Err("NoSuchElement") /\ ret_at = wait_timeout

\* C5 (as claimed): with a selector that never becomes visible, the failure is
\* returned no later than 30 s + 0.5 s after start_time, navigation and poll
\* time included.
C5_FailsWithinOneInterval ==
  (NeverVisibleRun /\ WaitFailure) =>
     ret_at <= wait_timeout + POLL_SLEEP_MILLIS
\* C5 (amended): with a selector that never becomes visible, the failure is
\* returned no later than one visibility poll and one sleep after the later of
\* the end of navigation and the 30 s deadline.
C5_FailsWithinPollAndSleep ==
  (NeverVisibleRun /\ WaitFailure) =>
     ret_at <= Max(nav_end, wait_timeout) + poll_time + slept
C5_Witness ==
  /\ pc = "done" /\ NeverVisibleRun /\ load_time = Err("Timeout")
  /\ polls >= 2 /\ poll_time > 0
  /\ ret_at > wait_timeout + POLL_SLEEP_MILLIS

\* C6 (as claimed): a transport failure of the session during a visibility
\* poll, in the element query or in the displayed-check, ends polling at that
\* poll and is returned as a session error that is neither Timeout nor
\* NoSuchElement.
C6_TransportFailureEndsPolling ==
  transport_seen =>
     /\ pc \in {"close", "done", "idle"}
     /\ load_time = Err("Driver")

\* the element turns visible at a delay below the timeout and no driver call
\* fails
VisibleRun ==
  /\ selector = "Some" /\ nav_result = "ok" /\ ~transport_seen
  /\ visibleAt # Never /\ visibleAt < wait_timeout

\* C7 (as claimed): if the element first becomes visible at delay D < 30 s the
\* measurement returns success with D <= d <= D + 0.5 s, and no poll is issued
\* after the first poll that reports the element visible.  (Stated for the
\* runs in which the page had loaded before the element turned visible.)
C7_SuccessWithinOneInterval ==
  /\ (Returned /\ VisibleRun /\ nav_end <= visibleAt) =>
        /\ load_time.kind = "Ok"
        /\ visibleAt <= load_time.duration
        /\ load_time.duration <= visibleAt + POLL_SLEEP_MILLIS
  /\ visible_seen => pc \in {"close", "done", "idle"}
\* C7 (amended): if the element first becomes visible at delay D < 30 s and no
\* driver call fails, the measurement ends in success or in Timeout, in Timeout
\* only if the last poll before the deadline test started before D; a
\* success has D <= d <= max(D, end of navigation) + one sleep + the time
\* spent in the last two polls; no poll is issued after the first poll that
\* reports the element visible.
C7_SuccessOrLateTimeout ==
  /\ (Returned /\ VisibleRun) =>
        \/ /\ load_time.kind = "Ok"
           /\ visibleAt <= load_time.duration
           /\ load_time.duration
                <= Max(visibleAt, nav_end) + slept + poll_time
                     + prev_poll_time
        \/ /\ load_time = Err("Timeout")
           /\ ret_at - slept - poll_time < visibleAt
  /\ visible_seen => pc \in {"close", "done", "idle"}
C7_Witness ==
  /\ pc = "done" /\ VisibleRun /\ visibleAt = VisibleSoon
  /\ load_time.kind = "Ok" /\ polls >= 2 /\ visible_seen
  /\ load_time.duration > visibleAt + POLL_SLEEP_MILLIS

\* C8: with no selector and a successful navigation the measurement returns
\* success with the time elapsed from start_time to the end of navigation,
\* and issues no visibility poll and no sleep.
C8_NoSelectorLoadTime ==
  (selector = "None" /\ nav_result = "ok") =>
     /\ load_time = Ok(nav_end)
     /\ polls = 0 /\ sleeps = 0
     /\ Returned => result = Ok(nav_end)
C8_Witness ==
  /\ pc = "done" /\ selector = "None" /\ nav_result = "ok"
  /\ result = Ok(NavSlow)

\* C9: when opening the session fails, measure_website_functional_time returns
\* an error, no duration was measured, and no navigation, visibility poll or
\* close was performed.
C9_OpenFailure ==
  (Returned /\ opens = 0) =>
     /\ result = Err("SessionUnavailable")
     /\ load_time = NoResult
     /\ navs = 0 /\ polls = 0 /\ sleeps = 0 /\ closes = 0
C9_Witness ==
  pc = "done" /\ opens = 0 /\ result.kind = "Err" /\ now = NewSlow

\* C10: when navigation fails the measurement returns the navigation error,
\* no visibility poll is issued even if a selector was given, and the session
\* has been closed once the error is returned to the caller.
C10_NavigationFailure ==
  nav_result = "error" =>
     /\ load_time = Err("Navigation")
     /\ polls = 0 /\ sleeps = 0
     /\ result # NoResult => closes = 1
     /\ Returned => (result = Err("Navigation") /\ closes = 1)
C10_Witness ==
  /\ pc = "done" /\ nav_result = "error" /\ selector = "Some"
  /\ result = Err("Navigation") /\ closes = 1

\* C11: every driver command of an invocation (goto, query, is_displayed,
\* quit) goes to the session that this invocation's BrowserEmulator::new
\* created, never to a session created by another invocation, and no command
\* is issued on a session on which quit has already been invoked.
C11_OwnSessionOnly ==
  /\ \A u \in used : u[1] \in 1..Len(owner) /\ owner[u[1]] = u[2]
  /\ ~stale_op
  /\ \A s1, s2 \in 1..Len(owner) : owner[s1] = owner[s2] => s1 = s2
C11_Witness ==
  /\ pc = "is_displayed" /\ calls = 2 /\ session = 2 /\ 1 \in quit_called
  /\ <<1, 1>> \in used /\ <<2, 2>> \in used

\* C12: an error returned by one check does not keep the later checks from
\* running: every check that was started has reported its own outcome once it
\* returned, main goes past its checks only when each of them has reported,
\* and after any outcome the next check can be started.
C12_FailureDoesNotStopChecks ==
  /\ pc = "idle" => Len(reported) = calls
  /\ main_done => (calls = MaxCalls /\ Len(reported) = MaxCalls)
  /\ (pc = "idle" /\ calls < MaxCalls) =>
        ENABLED (\E sel \in Selectors, vis \in VisibleDelays : Call(sel, vis))
C12_Witness ==
  /\ main_done /\ Len(reported) >= 2
  /\ reported[1] = "Err" /\ reported[2] = "Ok"

\* C13: at most one check is in flight at any time: a check is started only
\* when the earlier check has returned, and by then quit has been invoked on
\* the session of the earlier check.
C13_NoOverlappingChecks ==
  /\ in_flight <= 1
  /\ in_flight = 0 <=> pc = "idle"
  /\ pc = "new" => \A s \in 1..Len(owner) : s \in quit_called
C13_Witness ==
  /\ pc = "new" /\ calls = 2 /\ in_flight = 1
  /\ Len(owner) = 1 /\ quit_called = {1}

\* C14 (as claimed): in every round the probe loop makes exactly one
\* is_port_open call per configured address and prints exactly one result for
\* it; no address is probed twice or skipped within a round.
C14_OneProbePerTargetPerTick ==
  /\ \A i \in 1..Len(addresses) : probes[i] <= 1 /\ lines[i] <= 1
  /\ loop_pc = "sleep" =>
        \A i \in 1..Len(addresses) : probes[i] = 1 /\ lines[i] = 1

\* C15: is_port_open returns true exactly when its connection attempt was
\* established, and false for every failure (refused, unreachable, timed out,
\* invalid timeout); each call makes exactly one connection attempt, and the
\* value returned depends on that attempt only.
C15_PortOpenIffConnected ==
  /\ port_calls > 0 => (is_open <=> outcome = "connected")
  /\ is_open \in BOOLEAN
  /\ connects = port_calls
C15_Witness ==
  /\ port_calls >= 2 /\ timeout = 0 /\ outcome = "invalid_timeout"
  /\ ~is_open /\ connects = port_calls

(* ---------------- load_addresses: what each input line should do -------- *)
\* The lines of InputLines, read by hand: "valid" is host:port with an IPv4
\* host and a port in 1..65535, "defaulted" has an IPv4 host and a port text
\* that is 0 or no unsigned 16-bit integer, "rejected" has no IPv4 host or
\* not exactly two parts, "term" ends the input.
LineKind ==
  <<"valid", "rejected", "defaulted", "term", "term", "term",
    "defaulted", "defaulted", "rejected", "valid", "rejected">>
LineHost ==
  <<<<10, 0, 0, 1>>, <<>>, <<10, 0, 0, 2>>, <<>>, <<>>, <<>>,
    <<10, 0, 0, 1>>, <<10, 0, 0, 1>>, <<>>, <<192, 168, 1, 1>>, <<>>>>
LinePort == <<80, 0, 0, 0, 0, 0, 0, 0, 0, 65535, 0>>

RECURSIVE Flatten(_)
Flatten(ss) == IF ss = <<>> THEN <<>> ELSE Head(ss) \o Flatten(Tail(ss))

\* C16: a line host:port with exactly one colon, an IPv4 host and a port in
\* 1..65535 appends exactly one endpoint, equal to (host, port).
C16_ValidLineAppendsEndpoint ==
  \A k \in 1..Len(lines_read) :
    LineKind[lines_read[k]] = "valid" =>
      added[k] = <<Endpoint(LineHost[lines_read[k]], LinePort[lines_read[k]])>>
C16_Witness ==
  /\ Len(lines_read) >= 2 /\ lines_read[1] = 10 /\ lines_read[2] = 1
  /\ addresses = initial \o <<Endpoint(<<192, 168, 1, 1>>, 65535),
                              Endpoint(<<10, 0, 0, 1>>, 80)>>

\* C17: a line with an IPv4 host whose port text is 0 or is no unsigned
\* 16-bit integer appends the host with port 443, and no endpoint that
\* load_addresses appends has port 0.
C17_BadPortDefaultsTo443 ==
  /\ \A k \in 1..Len(lines_read) :
       LineKind[lines_read[k]] = "defaulted" =>
         added[k] = <<Endpoint(LineHost[lines_read[k]], 443)>>
  /\ \A k \in 1..Len(added) : \A i \in 1..Len(added[k]) : added[k][i].port # 0
C17_Witness ==
  /\ Len(lines_read) = 3
  /\ lines_read = <<3, 7, 8>>
  /\ Flatten(added) = <<Endpoint(<<10, 0, 0, 2>>, 443),
                        Endpoint(<<10, 0, 0, 1>>, 443),
                        Endpoint(<<10, 0, 0, 1>>, 443)>>

\* C18: a line without an IPv4 host, or not of exactly two parts, appends
\* nothing and leaves the loop running, so that the lines 10.0.0.1:80,
\* badhost:80, 10.0.0.2:0, done yield (10.0.0.1,80) and (10.0.0.2,443).
C18_RejectedLineIsSkipped ==
  /\ \A k \in 1..Len(lines_read) :
       LineKind[lines_read[k]] = "rejected" =>
         /\ added[k] = <<>>
         /\ k = Len(lines_read) =>
              (load_pc = "reading" \/ stop_cause = "read_error")
  /\ lines_read = <<1, 2, 3, 4>> =>
       /\ load_pc = "returned"
       /\ addresses = initial \o <<Endpoint(<<10, 0, 0, 1>>, 80),
                                   Endpoint(<<10, 0, 0, 2>>, 443)>>
C18_Witness ==
  /\ lines_read = <<1, 2, 3, 4>> /\ initial = <<>> /\ load_pc = "returned"
  /\ Len(addresses) = 2

\* C19: reading stops at the first line that is empty after trimming or is
\* "done" in any letter case, and on a read error; nothing is read after
\* that, and the endpoints accepted before stay in the list.
C19_StopsAtTerminator ==
  /\ \A k \in 1..Len(lines_read) :
       LineKind[lines_read[k]] = "term" =>
         /\ k = Len(lines_read)
         /\ added[k] = <<>>
         /\ load_pc = "returned" /\ stop_cause = "terminator"
         /\ reads = Len(lines_read)
  /\ stop_cause = "read_error" =>
       load_pc = "returned" /\ reads = Len(lines_read) + 1
  /\ load_pc = "returned" =>
       /\ stop_cause \in {"terminator", "read_error"}
  /\ addresses = initial \o Flatten(added)
C19_Witness ==
  /\ load_pc = "returned" /\ stop_cause = "terminator"
  /\ lines_read = <<1, 6>> /\ Len(initial) = 1
  /\ addresses = initial \o <<Endpoint(<<10, 0, 0, 1>>, 80)>>

(* ---------------- load_port_services: what each record should do -------- *)
\* The records of RegistryRecords that have a service name and a hyphen in
\* the port number, read by hand.
RangeRecord ==
  <<TRUE, TRUE, TRUE, FALSE, FALSE, FALSE, FALSE, FALSE, FALSE, TRUE, FALSE,
    FALSE>>

\* C20: a record with a service name and a hyphen in its port number is
\* inserted into the range table under its port number, whatever its
\* protocol, and the TCP and UDP tables hold nothing under that port number.
C20_RangeRecordSetAside ==
  \A k \in 1..Len(records_read) :
    LET record == RegistryRecords[records_read[k]]
    IN  RangeRecord[records_read[k]] =>
          /\ placed[k] = "range"
          /\ record.port_number \in DOMAIN range_services
          /\ record.port_number \notin DOMAIN tcp_services
          /\ record.port_number \notin DOMAIN udp_services
          /\ (\A j \in (k + 1)..Len(records_read) :
                RegistryRecords[records_read[j]].port_number
                  # record.port_number)
               => range_services[record.port_number] = record
C20_Witness ==
  /\ records_read = <<1, 5, 3>> /\ load_result = "Ok"
  /\ placed = <<"range", "tcp", "range">>
  /\ DOMAIN range_services =
       {RegistryRecords[1].port_number, RegistryRecords[3].port_number}
  /\ DOMAIN tcp_services = {RegistryRecords[5].port_number}

\* The protocol of each record of RegistryRecords without regard to letter
\* case ("tcp", "udp" or "other"), and the records that are to be skipped:
\* no service name, no port number, or a port number that is no integer in
\* 0..65535; both read by hand.
RecordProtocol ==
  <<"tcp", "udp", "other", "tcp", "tcp", "udp", "other", "tcp", "tcp", "tcp",
    "udp", "tcp">>
SkippedRecord ==
  <<TRUE, TRUE, TRUE, TRUE, FALSE, FALSE, FALSE, TRUE, TRUE, TRUE, FALSE,
    TRUE>>
KeysPlaced(table) ==
  {RegistryRecords[records_read[k]].port_number :
     k \in {j \in 1..Len(records_read) : placed[j] = table}}

\* C21: a record goes into at most one of the TCP and UDP tables, under its
\* port number text: into the TCP table only with protocol tcp and into the
\* UDP table only with protocol udp, in any letter case; a record without
\* service name or port number, with a port number outside 0..65535 or with
\* another protocol is in neither table, and none of these fails the load.
C21_TcpUdpByProtocol ==
  /\ Len(placed) = Len(records_read)
  /\ \A k \in 1..Len(records_read) :
       LET n == records_read[k]
       IN  /\ placed[k] = "tcp" => RecordProtocol[n] = "tcp"
           /\ placed[k] = "udp" => RecordProtocol[n] = "udp"
           /\ (SkippedRecord[n] \/ RecordProtocol[n] = "other")
                => placed[k] \notin {"tcp", "udp"}
  /\ DOMAIN tcp_services = KeysPlaced("tcp")
  /\ DOMAIN udp_services = KeysPlaced("udp")
  /\ \A key \in DOMAIN tcp_services : tcp_services[key].port_number = key
  /\ \A key \in DOMAIN udp_services : udp_services[key].port_number = key
  /\ (port_pc = "loop" /\ records_read # <<>>) => load_result = "none"
C21_Witness ==
  /\ records_read = <<5, 7, 11>> /\ load_result = "Ok"
  /\ placed = <<"tcp", "none", "udp">>
  /\ DOMAIN tcp_services = {<<"8", "0">>} /\ DOMAIN udp_services = {<<"0">>}

(* ---------------- the wait loop, poll by poll --------------------------- *)
\* what holds of the counters while the loop runs: a poll that did not see
\* the element displayed is counted in attempts and followed by one sleep of
\* at least 0.5 s before the next poll
PollThenSleep ==
  /\ pc = "sleep" => (attempts = polls /\ sleeps = polls - 1)
  /\ pc = "is_displayed" => (attempts = polls - 1 /\ sleeps = polls - 1)
  /\ pc = "query" => (attempts = polls /\ sleeps = polls)
  /\ sleeps > 0 => slept >= POLL_SLEEP_MILLIS
  /\ (load_time.kind = "Ok" /\ selector = "Some") => visible_seen
  /\ load_time.err = "Timeout" => (sleeps = polls /\ ret_at > wait_timeout)

\* C22 (as claimed): a poll that finds no element, or an element that is not
\* displayed, is not an error: it leads to exactly one 0.5 s sleep and then,
\* the deadline not passed, to another poll, and never ends the measurement.
C22_NotVisiblePollNeverEnds ==
  /\ PollThenSleep
  /\ ~transport_seen => load_time.err # "NoSuchElement"
\* C22 (amended): a poll that finds an element that is not displayed never
\* ends the measurement, and a poll that finds no element ends it only as
\* the 61st poll, after 60 polls and sleeps, with NoSuchElement; every other
\* such poll leads to exactly one 0.5 s sleep and then, the deadline not
\* passed, to another poll.
C22_NotVisiblePollEndsOnlyAt61 ==
  /\ PollThenSleep
  /\ load_time.err = "NoSuchElement" =>
       (polls = max_attempts + 1 /\ sleeps = max_attempts)
C22_Witness ==
  /\ pc = "close" /\ load_time = Err("NoSuchElement") /\ ~transport_seen
  /\ visibleAt = Never /\ polls = max_attempts + 1 /\ sleeps = max_attempts

\* measure_load_time has returned to measure_website_functional_time
LoadTimeReturned == pc = "close"
\* the ways in which measure_load_time ends
Outcomes ==
  {Err("Timeout"), Err("NoSuchElement"), Err("Driver"), Err("Navigation")}
    \cup {Ok(d) : d \in 0..(NavSlow + wait_timeout + 4 * POLL_SLEEP_MILLIS)}

\* C23: the wait loop terminates when every driver call returns: whatever
\* the polls report and however long navigation and polls take, one
\* invocation polls at most max_attempts + 1 = 61 times and ends in exactly
\* one of success, Timeout, NoSuchElement or a propagated driver error.
C23_WaitLoopTerminates ==
  /\ [](polls <= max_attempts + 1)
  /\ [](IF LoadTimeReturned THEN load_time \in Outcomes
                            ELSE load_time = NoResult)
  /\ [](load_time.kind = "Ok" /\ selector = "Some" => visible_seen)
  /\ <>LoadTimeReturned
C23_Witness ==
  /\ LoadTimeReturned /\ polls = max_attempts + 1
  /\ load_time = Err("Timeout") /\ visibleAt = Never /\ ~transport_seen

\* the element is displayed when navigation ends, and no driver call fails
VisibleAtFirstPoll ==
  /\ selector = "Some" /\ nav_result = "ok" /\ ~transport_seen
  /\ visibleAt # Never /\ visibleAt <= nav_end

\* C24: with a selector and a successful navigation no timeout failure is
\* returned before a visibility poll and its sleep have taken place, so an
\* element that is visible at the first poll yields success even when
\* navigation alone took longer than the 30 s timeout.
C24_PollBeforeTimeout ==
  /\ WaitFailure => (polls >= 1 /\ sleeps >= 1)
  /\ load_time.err = "Timeout" => sleeps = polls
  /\ (LoadTimeReturned /\ VisibleAtFirstPoll) =>
        /\ load_time.kind = "Ok" /\ polls = 1 /\ sleeps = 0
        /\ load_time.duration >= nav_end
C24_Witness ==
  /\ LoadTimeReturned /\ VisibleAtFirstPoll /\ nav_end = NavSlow
  /\ load_time.kind = "Ok" /\ load_time.duration > wait_timeout /\ polls = 1

\* the endpoints that the lines read so far should have appended, in input
\* order, by the reading of the lines above
RECURSIVE ExpectedAdded(_)
ExpectedAdded(ls) ==
  IF ls = <<>> THEN <<>>
  ELSE LET n == ls[Len(ls)]
           before == ExpectedAdded(SubSeq(ls, 1, Len(ls) - 1))
       IN  IF LineKind[n] = "valid"
           THEN Append(before, Endpoint(LineHost[n], LinePort[n]))
           ELSE IF LineKind[n] = "defaulted"
           THEN Append(before, Endpoint(LineHost[n], 443))
           ELSE before

\* C25: load_addresses only appends: every step keeps the list it found as
\* a prefix and adds at most one endpoint, so the entries present before the
\* call and those accepted earlier stay in place; the new endpoints follow
\* in input order, duplicates included, and a rejected line adds nothing.
C25_AppendOnly ==
  /\ [][/\ Len(addresses') \in {Len(addresses), Len(addresses) + 1}
        /\ SubSeq(addresses', 1, Len(addresses)) = addresses]_vars
  /\ [](addresses = initial \o ExpectedAdded(lines_read))
C25_Witness ==
  /\ lines_read = <<1, 1, 2>> /\ Len(initial) = 1 /\ load_pc = "reading"
  /\ addresses = initial \o <<Endpoint(<<10, 0, 0, 1>>, 80),
                              Endpoint(<<10, 0, 0, 1>>, 80)>>

====
